---- MODULE Spec2Model ----
(***************************************************************************)
(* State-machine model of the task-manager API: the auth routes            *)
(* (register, login, me, logout), the task routes (/api/tasks and          *)
(* /api/tasks/[id]), the User and Task mongoose models and the zod          *)
(* request schemas.                                                        *)
(*                                                                         *)
(* Every route handler is a pure operator from (store, clock, request) to  *)
(* (response, new store); the actions apply the operators to requests      *)
(* drawn from small sets and record the request and its response in the    *)
(* history variables req and resp.                                         *)
(***************************************************************************)
EXTENDS Integers, FiniteSets, Sequences, TLC

VARIABLES
    secret,     \* process.env.NEXTAUTH_SECRET ("" when unconfigured)
    users,      \* the users collection: a set of user documents
    inflight,   \* register requests suspended between findOne and save
    tasks,      \* the tasks collection: a set of task documents
    nextTaskId, \* the next fresh task _id (an ObjectId is never reused)
    created,    \* the ledger of the clients: who was told 200 on creating which
                \* task id, less the ids a delete was answered 200 for (history)
    issued,     \* the grants so far: who logged in, and the token login returned
    now,        \* the clock, in days
    req,        \* the last request handled (history)
    resp,       \* the response to it (history)
    cached,     \* the cached store connection: [conn, promise], 0 for null
    connecting, \* the mongoose.connect attempts that have not settled yet
    connects,   \* how many times mongoose.connect was called
    callers,    \* the calls of connectMongoDB: where each one stands
    client      \* the AuthProvider of one browser tab, and its cookie jar

vars == <<secret, users, inflight, tasks, nextTaskId, created, issued, now, req, resp,
          cached, connecting, connects, callers, client>>

----------------------------------------------------------------------------
(* Bounds of the model *)

MaxInFlight == 2
MaxTokens == 2
MaxTasks == 1
MaxTime == 8
MaxCallers == 3
MaxConnects == 3

(* jwt.sign(..., { expiresIn: '7d' }), in days *)
TokenLifetime == 7
(* maxAge: 7 * 24 * 60 * 60 seconds, in days *)
CookieMaxAge == 7

----------------------------------------------------------------------------
(* Inputs *)

ServerSecret == "server-secret"
AttackerKey == "attacker-key"

Names == {"Ann"}
RawEmails == {"ann@x.io", "ANN@x.io", "bob@x.io", "eve@x.museum", "not-an-email"}
Passwords == {"hunter22", "letmein1"}

(* String.prototype.toLowerCase over the e-mail inputs *)
toLowerCase(s) == IF s = "ANN@x.io" THEN "ann@x.io" ELSE s

(* zod's .email() check over the e-mail inputs *)
isEmail(s) == s \in {"ann@x.io", "ANN@x.io", "bob@x.io", "eve@x.museum"}

(* The match pattern of UserSchema.email, /^\w+([.-]?\w+)*@\w+([.-]?\w+)*(\.\w{2,3})+$/,
   over the e-mail inputs: the last label has two or three characters *)
emailMatch(s) == s \in {"ann@x.io", "ANN@x.io", "bob@x.io"}

(* bcrypt.hash(password, 12): a digest that is never the plaintext *)
bcryptHash(pw) ==
    CASE pw = "hunter22" -> "$2a$12$Hh"
      [] pw = "letmein1" -> "$2a$12$Ll"
      [] OTHER -> "$2a$12$.."

(* Mutant: every password verifies *)
bcryptCompare_always(pw, digest) == TRUE

(* bcrypt.compare(password, digest) *)
bcryptCompare(pw, digest) == bcryptHash(pw) = digest

----------------------------------------------------------------------------
(* Responses: NextResponse.json(body, { status }) *)

Json(status, body) == [status |-> status, body |-> body, cookies |-> {}]

Failure(status, msg) == Json(status, [success |-> FALSE, error |-> msg])

NoResponse == Json(0, [success |-> FALSE])

NoRequest == [op |-> "none"]

----------------------------------------------------------------------------
(* Tokens: jwt.sign and jwt.verify *)

NoToken == [kind |-> "none"]
Malformed == [kind |-> "malformed"]

(* Mutant: the payload names the other of the two users *)
jwtSign_otherUser(payload, key, t) ==
    [kind |-> "jwt", userId |-> 3 - payload.userId, email |-> payload.email,
     iat |-> t, exp |-> t + TokenLifetime, key |-> key]

(* jwt.sign(payload, key, { expiresIn: '7d' }) at clock t *)
jwtSign(payload, key, t) ==
    [kind |-> "jwt", userId |-> payload.userId, email |-> payload.email,
     iat |-> t, exp |-> t + TokenLifetime, key |-> key]

(* Mutant: the expiry of the token is not looked at *)
jwtVerify_noExpiry(token, key, t) ==
    IF token.kind # "jwt" THEN [ok |-> FALSE, error |-> "JsonWebTokenError"]
    ELSE IF token.key # key THEN [ok |-> FALSE, error |-> "JsonWebTokenError"]
    ELSE [ok |-> TRUE, userId |-> token.userId, email |-> token.email]

(* jwt.verify(token, key) at clock t: the payload, or the error thrown *)
jwtVerify(token, key, t) ==
    IF token.kind # "jwt" THEN [ok |-> FALSE, error |-> "JsonWebTokenError"]
    ELSE IF token.key # key THEN [ok |-> FALSE, error |-> "JsonWebTokenError"]
    ELSE IF t >= token.exp THEN [ok |-> FALSE, error |-> "TokenExpiredError"]
    ELSE [ok |-> TRUE, userId |-> token.userId, email |-> token.email]

(* error instanceof jwt.JsonWebTokenError: TokenExpiredError is a subclass *)
instanceofJsonWebTokenError(e) == e \in {"JsonWebTokenError", "TokenExpiredError"}

(* Request credentials: the authorization header and the cookie header *)
NoHeader == [present |-> FALSE]
Bearer(t) == [present |-> TRUE, bearer |-> TRUE, token |-> t]
NoCookie == [present |-> FALSE]
AuthCookie(t) == [present |-> TRUE, authToken |-> TRUE, token |-> t]

(* An authorization header of another scheme *)
Basic == [present |-> TRUE, bearer |-> FALSE, token |-> NoToken]

(* Mutant: the cookie is looked at first, the header only without a cookie *)
extractToken_cookieFirst(creds) ==
    IF creds.cookie.present /\ creds.cookie.authToken
    THEN creds.cookie.token
    ELSE IF creds.authorization.present /\ creds.authorization.bearer
    THEN creds.authorization.token
    ELSE NoToken

(* The token lookup shared by the me route and getUserFromToken *)
extractToken(creds) ==
    IF creds.authorization.present /\ creds.authorization.bearer
    THEN creds.authorization.token
    ELSE IF creds.cookie.present /\ creds.cookie.authToken
    THEN creds.cookie.token
    ELSE NoToken

(* Mutant: the token is decoded, its signature and expiry are not verified *)
getUserFromToken_decodeOnly(creds, key, t) ==
    LET token == extractToken(creds) IN
    IF token.kind = "jwt" THEN token.userId ELSE 0

(* getUserFromToken(request): the caller's user id, or 0 for null *)
getUserFromToken(creds, key, t) ==
    LET token == extractToken(creds) IN
    IF token.kind = "none" \/ key = "" THEN 0
    ELSE LET decoded == jwtVerify(token, key, t) IN
         IF decoded.ok THEN decoded.userId ELSE 0

----------------------------------------------------------------------------
(* User model and the auth routes *)

(* Mutant: the whole document is returned *)
userResponse_wholeDocument(u) == u

(* The response projection of a user document (no password) *)
userResponse(u) ==
    [_id |-> u._id, name |-> u.name, email |-> u.email, avatar |-> u.avatar]

(* User.findOne({ email }) *)
findUserByEmail(us, email) == {u \in us : u.email = email}

RegisterFields == {"name", "email", "password", "confirmPassword"}

(* Mutant: the schema has no refinement comparing the two passwords *)
RegisterSchema_noRefine(body) ==
    LET missing == RegisterFields \ DOMAIN body
        bad == {f \in DOMAIN body \cap RegisterFields :
                  \/ f = "name" /\ (Len(body.name) < 2 \/ Len(body.name) > 50)
                  \/ f = "email" /\ ~isEmail(body.email)
                  \/ f = "password" /\ (Len(body.password) < 6 \/ Len(body.password) > 100)}
    IN IF missing \cup bad = {}
       THEN [success |-> TRUE,
             data |-> [name |-> body.name, email |-> toLowerCase(body.email),
                       password |-> body.password]]
       ELSE [success |-> FALSE,
             fieldErrors |-> [f \in missing \cup bad |->
                                IF f \in missing THEN "Required" ELSE "invalid"]]

(* RegisterSchema.safeParse(body) with formatZodError on failure.  A field
   that is not a string (here: absent) is an invalid_type issue, which aborts
   the parse of the object, and zod does not run .refine() on an aborted
   value; a string that fails min, max or email leaves the value dirty and
   the refinement runs. *)
RegisterSchema(body) ==
    LET missing == RegisterFields \ DOMAIN body
        bad == {f \in DOMAIN body \cap RegisterFields :
                  \/ f = "name" /\ (Len(body.name) < 2 \/ Len(body.name) > 50)
                  \/ f = "email" /\ ~isEmail(body.email)
                  \/ f = "password" /\ (Len(body.password) < 6 \/ Len(body.password) > 100)}
        refined == IF missing = {} /\ body.password # body.confirmPassword
                   THEN {"confirmPassword"} ELSE {}
        issues == missing \cup bad \cup refined
    IN IF issues = {}
       THEN [success |-> TRUE,
             data |-> [name |-> body.name, email |-> toLowerCase(body.email),
                       password |-> body.password]]
       ELSE [success |-> FALSE,
             fieldErrors |-> [f \in issues |->
                                IF f \in missing THEN "Required"
                                ELSE IF f \in refined THEN "Passwords don't match"
                                ELSE "invalid"]]

Idle == [stage |-> "idle"]

(* POST /api/auth/register up to the await of newUser.save() *)
registerBegin(us, body, dbUp) ==
    IF ~dbUp THEN [resp |-> Failure(500, "Registration failed. Please try again."), suspended |-> Idle]
    ELSE LET v == RegisterSchema(body) IN
    IF ~v.success
    THEN [resp |-> Json(400, [success |-> FALSE, error |-> "Validation failed",
                              fieldErrors |-> v.fieldErrors]),
          suspended |-> Idle]
    ELSE IF findUserByEmail(us, v.data.email) # {}
    THEN [resp |-> Failure(400, "User with this email already exists"), suspended |-> Idle]
    ELSE [resp |-> NoResponse, suspended |-> [stage |-> "save", data |-> v.data]]

(* UserSchema.pre('save'): hash the password of a new document *)
UserPreSave(doc) == [doc EXCEPT !.password = bcryptHash(doc.password)]

(* Mutant: the collection has no unique index *)
uniqueEmailIndex_absent(us, doc) == TRUE

(* The unique index on email (unique: true) accepts the insert *)
uniqueEmailIndex(us, doc) == \A u \in us : u.email # doc.email

(* The validators of UserSchema *)
userValidators(doc) ==
    /\ Len(doc.name) >= 2 /\ Len(doc.name) <= 50
    /\ emailMatch(doc.email)
    /\ Len(doc.password) >= 6

(* newUser.save() and the rest of POST /api/auth/register *)
registerSave(us, data, dbUp) ==
    LET new == [_id |-> Cardinality(us) + 1, name |-> data.name,
                email |-> toLowerCase(data.email),
                password |-> data.password, avatar |-> "null"]
        doc == UserPreSave(new)
    IN IF ~dbUp THEN [resp |-> Failure(500, "Registration failed. Please try again."), users |-> us]
       ELSE IF ~userValidators(new)
       THEN [resp |-> Json(400, [success |-> FALSE, error |-> "Validation failed",
                                 details |-> "User validation failed"]),
             users |-> us]
       ELSE IF ~uniqueEmailIndex(us, doc)
       THEN [resp |-> Failure(400, "User with this email already exists"), users |-> us]
       ELSE [resp |-> Json(200, [success |-> TRUE, message |-> "User registered successfully",
                                 data |-> userResponse(doc)]),
             users |-> us \cup {doc}]

(* user.comparePassword(password) *)
comparePassword(u, password) == bcryptCompare(password, u.password)

(* The 401 of login when no user has the email *)
UserNotFound == Failure(401, "Invalid email or password")

(* Mutant: a wrong password is told apart from an unknown email *)
InvalidPassword_distinct == Failure(401, "Invalid password")

(* The 401 of login when the password does not verify *)
InvalidPassword == Failure(401, "Invalid email or password")

(* POST /api/auth/login *)
loginPOST(us, key, t, body, dbUp) ==
    IF ~dbUp THEN Failure(500, "Login failed. Please try again.")
    ELSE IF body.email = "" \/ body.password = ""
    THEN Failure(400, "Email and password are required")
    ELSE LET found == findUserByEmail(us, toLowerCase(body.email)) IN
    IF found = {} THEN UserNotFound
    ELSE LET user == CHOOSE u \in found : TRUE IN
    IF ~comparePassword(user, body.password) THEN InvalidPassword
    ELSE IF key = "" THEN Failure(500, "Login failed. Please try again.")
    ELSE LET token == jwtSign([userId |-> user._id, email |-> user.email], key, t) IN
         [status |-> 200,
          body |-> [success |-> TRUE, message |-> "Login successful",
                    data |-> [user |-> userResponse(user), token |-> token]],
          cookies |-> {[name |-> "auth-token", value |-> token, httpOnly |-> TRUE,
                        secure |-> FALSE, sameSite |-> "lax", maxAge |-> CookieMaxAge,
                        path |-> "/"]}]

(* GET /api/auth/me *)
meGET(us, key, t, creds, dbUp) ==
    LET token == extractToken(creds) IN
    IF token.kind = "none" THEN Failure(401, "No authentication token provided")
    ELSE IF key = "" THEN Failure(500, "Failed to get current user")
    ELSE LET decoded == jwtVerify(token, key, t) IN
    IF ~decoded.ok
    THEN IF instanceofJsonWebTokenError(decoded.error)
         THEN Failure(401, "Invalid authentication token")
         ELSE Failure(401, "Authentication token expired")
    ELSE IF ~dbUp THEN Failure(500, "Failed to get current user")
    ELSE LET found == {u \in us : u._id = decoded.userId} IN
    IF found = {} THEN Failure(404, "User not found")
    ELSE Json(200, [success |-> TRUE, data |-> userResponse(CHOOSE u \in found : TRUE)])

(* The message of the error a failed store call throws *)
StoreError == "connect ECONNREFUSED 127.0.0.1:27017"

(* GET /api/test-db *)
testDbGET(us, ts, dbUp) ==
    IF ~dbUp
    THEN Json(500, [success |-> FALSE, error |-> "Database connection failed",
                    details |-> StoreError])
    ELSE Json(200, [success |-> TRUE, message |-> "Database connection successful!",
                    data |-> [userCount |-> Cardinality(us),
                              taskCount |-> Cardinality(ts)]])

(* POST /api/auth/logout *)
logoutPOST ==
    [status |-> 200,
     body |-> [success |-> TRUE, message |-> "Logged out successfully"],
     cookies |-> {[name |-> "auth-token", value |-> NoToken, httpOnly |-> TRUE,
                   secure |-> FALSE, sameSite |-> "strict", maxAge |-> 0, path |-> "/"]}]

----------------------------------------------------------------------------
(* Task model and the request schemas *)

TaskStatus == {"pending", "in_progress", "completed"}
TaskPriority == {"low", "medium", "high", "urgent"}
TaskCategory == {"work", "personal", "health", "finance", "learning", "other"}

NoDate == [set |-> FALSE]
Date(d) == [set |-> TRUE, day |-> d]

Has(body, k) == k \in DOMAIN body

(* String.prototype.trim over the title and description inputs *)
trim(s) == IF s = "   " THEN "" ELSE s

(* Mutant: the title bound is exclusive ("less than 200 characters") *)
taskFieldErrors_titleBelow200(body, t) ==
    {k \in DOMAIN body :
       \/ k = "title" /\ (Len(body.title) < 1 \/ Len(body.title) >= 200)
       \/ k = "description" /\ Len(body.description) > 1000
       \/ k = "priority" /\ body.priority \notin TaskPriority
       \/ k = "category" /\ body.category \notin TaskCategory
       \/ k = "status" /\ body.status \notin TaskStatus
       \/ k = "dueDate" /\ body.dueDate.set /\ ~(body.dueDate.day >= t)}

(* The field checks of CreateTaskSchema, applied to the keys the body has *)
taskFieldErrors(body, t) ==
    {k \in DOMAIN body :
       \/ k = "title" /\ (Len(body.title) < 1 \/ Len(body.title) > 200)
       \/ k = "description" /\ Len(body.description) > 1000
       \/ k = "priority" /\ body.priority \notin TaskPriority
       \/ k = "category" /\ body.category \notin TaskCategory
       \/ k = "status" /\ body.status \notin TaskStatus
       \/ k = "dueDate" /\ body.dueDate.set /\ ~(body.dueDate.day >= t)}

(* The parsed value: known keys only, strings trimmed *)
taskParsed(body, keys) ==
    [k \in DOMAIN body \cap keys |->
        IF k \in {"title", "description"} THEN trim(body[k]) ELSE body[k]]

CreateKeys == {"title", "description", "priority", "category", "dueDate"}
(* Mutant: the update schema lets the owner and completedAt through *)
UpdateKeys_withOwner == CreateKeys \cup {"status", "userId", "completedAt"}

UpdateKeys == CreateKeys \cup {"status"}

(* CreateTaskSchema.safeParse(body) with formatZodError on failure *)
CreateTaskSchema(body, t) ==
    LET seen == [k \in DOMAIN body \cap CreateKeys |-> body[k]]
        bad == taskFieldErrors(seen, t) \cup ({"title", "priority", "category"} \ DOMAIN body)
    IN IF bad = {} THEN [success |-> TRUE, data |-> taskParsed(body, CreateKeys)]
       ELSE [success |-> FALSE, fieldErrors |-> [f \in bad |-> "invalid"]]

(* UpdateTaskSchema.safeParse(body): CreateTaskSchema plus status, all optional *)
UpdateTaskSchema(body, t) ==
    LET seen == [k \in DOMAIN body \cap UpdateKeys |-> body[k]]
        bad == taskFieldErrors(seen, t)
    IN IF bad = {} THEN [success |-> TRUE, data |-> taskParsed(body, UpdateKeys)]
       ELSE [success |-> FALSE, fieldErrors |-> [f \in bad |-> "invalid"]]

(* TaskQuerySchema.safeParse(queryParams); "" is an absent parameter *)
TaskQuerySchema(q) ==
    LET bad == {k \in {"status", "priority", "category"} :
                  \/ k = "status" /\ q.status \notin TaskStatus \cup {""}
                  \/ k = "priority" /\ q.priority \notin TaskPriority \cup {""}
                  \/ k = "category" /\ q.category \notin TaskCategory \cup {""}}
    IN IF bad = {} THEN [success |-> TRUE, data |-> q]
       ELSE [success |-> FALSE, fieldErrors |-> [f \in bad |-> "invalid"]]

(* The validators of TaskSchema on the paths in `paths` of a document *)
taskValidators(doc, paths, t) ==
    /\ "title" \in paths => (Len(doc.title) >= 1 /\ Len(doc.title) <= 200)
    /\ "description" \in paths => Len(doc.description) <= 1000
    /\ "status" \in paths => doc.status \in TaskStatus
    /\ "priority" \in paths => doc.priority \in TaskPriority
    /\ "category" \in paths => doc.category \in TaskCategory
    /\ "dueDate" \in paths => (~doc.dueDate.set \/ doc.dueDate.day > t)

(* TaskSchema.pre('save') *)
TaskPreSave(doc, statusModified, t) ==
    IF statusModified
    THEN IF doc.status = "completed" /\ ~doc.completedAt.set
         THEN [doc EXCEPT !.completedAt = Date(t)]
         ELSE IF doc.status # "completed"
         THEN [doc EXCEPT !.completedAt = NoDate]
         ELSE doc
    ELSE doc

(* new Task({...}): schema defaults for the paths POST does not pass *)
newTask(id, userId, data) ==
    [_id |-> id, userId |-> userId, title |-> trim(data.title),
     description |-> IF Has(data, "description") THEN data.description ELSE "",
     status |-> "pending", priority |-> data.priority, category |-> data.category,
     dueDate |-> IF Has(data, "dueDate") THEN data.dueDate ELSE NoDate,
     completedAt |-> NoDate]

AuthRequired == Failure(401, "Authentication required")
TaskNotFound == Failure(404, "Task not found")

(* Mutant: the lookup is by _id alone, the owner is not part of the filter *)
findOneTask_byIdOnly(ts, id, userId) == {x \in ts : x._id = id}

(* Task.findOne({ _id: id, userId }) *)
findOneTask(ts, id, userId) == {x \in ts : x._id = id /\ x.userId = userId}

(* Descending sort on creation order, which _id follows *)
RECURSIVE sortNewestFirst(_)
sortNewestFirst(ts) ==
    IF ts = {} THEN <<>>
    ELSE LET newest == CHOOSE x \in ts : \A y \in ts : y._id <= x._id
         IN <<newest>> \o sortNewestFirst(ts \ {newest})

----------------------------------------------------------------------------
(* The task routes *)

(* Mutant: the category parameter is validated but left out of the filter *)
tasksGET_categoryIgnored(ts, key, t, creds, query, dbUp) ==
    LET userId == getUserFromToken(creds, key, t) IN
    IF userId = 0 THEN AuthRequired
    ELSE IF ~dbUp THEN Failure(500, "Failed to fetch tasks")
    ELSE LET v == TaskQuerySchema(query) IN
    IF ~v.success
    THEN Json(400, [success |-> FALSE, error |-> "Invalid query parameters",
                    fieldErrors |-> v.fieldErrors])
    ELSE LET found == {x \in ts : /\ x.userId = userId
                                  /\ v.data.status # "" => x.status = v.data.status
                                  /\ v.data.priority # "" => x.priority = v.data.priority}
         IN Json(200, [success |-> TRUE, data |-> sortNewestFirst(found),
                       message |-> "Tasks fetched successfully"])

(* GET /api/tasks *)
tasksGET(ts, key, t, creds, query, dbUp) ==
    LET userId == getUserFromToken(creds, key, t) IN
    IF userId = 0 THEN AuthRequired
    ELSE IF ~dbUp THEN Failure(500, "Failed to fetch tasks")
    ELSE LET v == TaskQuerySchema(query) IN
    IF ~v.success
    THEN Json(400, [success |-> FALSE, error |-> "Invalid query parameters",
                    fieldErrors |-> v.fieldErrors])
    ELSE LET found == {x \in ts : /\ x.userId = userId
                                  /\ v.data.status # "" => x.status = v.data.status
                                  /\ v.data.priority # "" => x.priority = v.data.priority
                                  /\ v.data.category # "" => x.category = v.data.category}
         IN Json(200, [success |-> TRUE, data |-> sortNewestFirst(found),
                       message |-> "Tasks fetched successfully"])

(* Mutant: the status of the request body is passed to new Task *)
tasksPOST_statusFromBody(ts, id, key, t, creds, body, dbUp) ==
    LET userId == getUserFromToken(creds, key, t) IN
    IF userId = 0 THEN [resp |-> AuthRequired, tasks |-> ts]
    ELSE LET v == CreateTaskSchema(body, t) IN
    IF ~v.success
    THEN [resp |-> Json(400, [success |-> FALSE, error |-> "Validation failed",
                              fieldErrors |-> v.fieldErrors]),
          tasks |-> ts]
    ELSE IF ~dbUp THEN [resp |-> Failure(500, "Failed to create task"), tasks |-> ts]
    ELSE LET doc == [newTask(id, userId, v.data) EXCEPT
                       !.status = IF Has(body, "status") THEN body.status ELSE @] IN
    IF ~taskValidators(doc, DOMAIN doc, t)
    THEN [resp |-> Json(400, [success |-> FALSE, error |-> "Validation failed",
                              details |-> "ValidationError"]),
          tasks |-> ts]
    ELSE LET savedTask == TaskPreSave(doc, Has(body, "status"), t) IN
         [resp |-> Json(200, [success |-> TRUE, data |-> savedTask,
                              message |-> "Task created successfully"]),
          tasks |-> ts \cup {savedTask}]

(* POST /api/tasks: the response and the collection after it *)
tasksPOST(ts, id, key, t, creds, body, dbUp) ==
    LET userId == getUserFromToken(creds, key, t) IN
    IF userId = 0 THEN [resp |-> AuthRequired, tasks |-> ts]
    ELSE LET v == CreateTaskSchema(body, t) IN
    IF ~v.success
    THEN [resp |-> Json(400, [success |-> FALSE, error |-> "Validation failed",
                              fieldErrors |-> v.fieldErrors]),
          tasks |-> ts]
    ELSE IF ~dbUp THEN [resp |-> Failure(500, "Failed to create task"), tasks |-> ts]
    ELSE LET doc == newTask(id, userId, v.data) IN
    IF ~taskValidators(doc, DOMAIN doc, t)
    THEN [resp |-> Json(400, [success |-> FALSE, error |-> "Validation failed",
                              details |-> "ValidationError"]),
          tasks |-> ts]
    ELSE LET savedTask == TaskPreSave(doc, FALSE, t) IN
         [resp |-> Json(200, [success |-> TRUE, data |-> savedTask,
                              message |-> "Task created successfully"]),
          tasks |-> ts \cup {savedTask}]

(* TaskIdSchema: the route parameter is a non-empty string *)
TaskIdSchema(id) == id # 0

(* Mutant: the task is looked up by _id, and its owner checked afterwards *)
taskGET_ownerCheckedAfter(ts, key, t, creds, id, dbUp) ==
    LET userId == getUserFromToken(creds, key, t) IN
    IF userId = 0 THEN AuthRequired
    ELSE IF ~dbUp THEN Failure(500, "Failed to fetch task")
    ELSE LET found == {x \in ts : x._id = id} IN
    IF found = {} THEN TaskNotFound
    ELSE IF (CHOOSE x \in found : TRUE).userId # userId THEN Failure(403, "Forbidden")
    ELSE Json(200, [success |-> TRUE, data |-> CHOOSE x \in found : TRUE,
                    message |-> "Task fetched successfully"])

(* GET /api/tasks/[id] *)
taskGET(ts, key, t, creds, id, dbUp) ==
    LET userId == getUserFromToken(creds, key, t) IN
    IF userId = 0 THEN AuthRequired
    ELSE IF ~dbUp THEN Failure(500, "Failed to fetch task")
    ELSE LET found == findOneTask(ts, id, userId) IN
    IF found = {} THEN TaskNotFound
    ELSE Json(200, [success |-> TRUE, data |-> CHOOSE x \in found : TRUE,
                    message |-> "Task fetched successfully"])

(* Mutant: the status of the update is dropped *)
applyUpdate_statusKept(doc, update) ==
    [k \in DOMAIN doc |-> IF k \in DOMAIN update \ {"status"} THEN update[k] ELSE doc[k]]

(* The $set of findOneAndUpdate: the paths of the update replace the document's *)
applyUpdate(doc, update) ==
    [k \in DOMAIN doc |-> IF k \in DOMAIN update THEN update[k] ELSE doc[k]]

(* Task.findOneAndUpdate({ _id: id, userId }, update, { new: true }) *)
findOneAndUpdate(ts, id, userId, update) ==
    LET found == findOneTask(ts, id, userId) IN
    IF found = {} THEN [found |-> FALSE, tasks |-> ts]
    ELSE LET old == CHOOSE x \in found : TRUE
             new == applyUpdate(old, update)
         IN [found |-> TRUE, doc |-> new, tasks |-> (ts \ {old}) \cup {new}]

(* Mutant: the route stamps completedAt itself on every completing update *)
taskPATCH_stampsCompletedAt(ts, key, t, creds, id, body, dbUp) ==
    IF ~TaskIdSchema(id) THEN [resp |-> Failure(400, "Invalid task ID"), tasks |-> ts]
    ELSE LET userId == getUserFromToken(creds, key, t) IN
    IF userId = 0 THEN [resp |-> AuthRequired, tasks |-> ts]
    ELSE LET v == UpdateTaskSchema(body, t) IN
    IF ~v.success
    THEN [resp |-> Json(400, [success |-> FALSE, error |-> "Validation failed",
                              fieldErrors |-> v.fieldErrors]),
          tasks |-> ts]
    ELSE IF ~dbUp THEN [resp |-> Failure(500, "Failed to update task"), tasks |-> ts]
    ELSE IF ~taskValidators(v.data, DOMAIN v.data, t)
    THEN [resp |-> Json(400, [success |-> FALSE, error |-> "Validation failed",
                              details |-> "ValidationError"]),
          tasks |-> ts]
    ELSE LET found == findOneTask(ts, id, userId) IN
    IF found = {} THEN [resp |-> TaskNotFound, tasks |-> ts]
    ELSE LET old == CHOOSE x \in found : TRUE
             set == applyUpdate(old, v.data)
             new == IF Has(v.data, "status") /\ v.data.status = "completed"
                    THEN [set EXCEPT !.completedAt = Date(t)] ELSE set
         IN [resp |-> Json(200, [success |-> TRUE, data |-> new,
                                 message |-> "Task updated successfully"]),
             tasks |-> (ts \ {old}) \cup {new}]

(* PATCH /api/tasks/[id]: the response and the collection after it *)
taskPATCH(ts, key, t, creds, id, body, dbUp) ==
    IF ~TaskIdSchema(id) THEN [resp |-> Failure(400, "Invalid task ID"), tasks |-> ts]
    ELSE LET userId == getUserFromToken(creds, key, t) IN
    IF userId = 0 THEN [resp |-> AuthRequired, tasks |-> ts]
    ELSE LET v == UpdateTaskSchema(body, t) IN
    IF ~v.success
    THEN [resp |-> Json(400, [success |-> FALSE, error |-> "Validation failed",
                              fieldErrors |-> v.fieldErrors]),
          tasks |-> ts]
    ELSE IF ~dbUp THEN [resp |-> Failure(500, "Failed to update task"), tasks |-> ts]
    ELSE IF ~taskValidators(v.data, DOMAIN v.data, t)
    THEN [resp |-> Json(400, [success |-> FALSE, error |-> "Validation failed",
                              details |-> "ValidationError"]),
          tasks |-> ts]
    ELSE LET r == findOneAndUpdate(ts, id, userId, v.data) IN
    IF ~r.found THEN [resp |-> TaskNotFound, tasks |-> ts]
    ELSE [resp |-> Json(200, [success |-> TRUE, data |-> r.doc,
                              message |-> "Task updated successfully"]),
          tasks |-> r.tasks]

(* Mutant: the task is found and reported deleted, but not removed *)
taskDELETE_notRemoved(ts, key, t, creds, id, dbUp) ==
    IF ~TaskIdSchema(id) THEN [resp |-> Failure(400, "Invalid task ID"), tasks |-> ts]
    ELSE LET userId == getUserFromToken(creds, key, t) IN
    IF userId = 0 THEN [resp |-> AuthRequired, tasks |-> ts]
    ELSE IF ~dbUp THEN [resp |-> Failure(500, "Failed to delete task"), tasks |-> ts]
    ELSE LET found == findOneTask(ts, id, userId) IN
    IF found = {} THEN [resp |-> TaskNotFound, tasks |-> ts]
    ELSE LET deletedTask == CHOOSE x \in found : TRUE IN
         [resp |-> Json(200, [success |-> TRUE, data |-> deletedTask,
                              message |-> "Task deleted successfully"]),
          tasks |-> ts]

(* DELETE /api/tasks/[id]: the response and the collection after it *)
taskDELETE(ts, key, t, creds, id, dbUp) ==
    IF ~TaskIdSchema(id) THEN [resp |-> Failure(400, "Invalid task ID"), tasks |-> ts]
    ELSE LET userId == getUserFromToken(creds, key, t) IN
    IF userId = 0 THEN [resp |-> AuthRequired, tasks |-> ts]
    ELSE IF ~dbUp THEN [resp |-> Failure(500, "Failed to delete task"), tasks |-> ts]
    ELSE LET found == findOneTask(ts, id, userId) IN
    IF found = {} THEN [resp |-> TaskNotFound, tasks |-> ts]
    ELSE LET deletedTask == CHOOSE x \in found : TRUE IN
         [resp |-> Json(200, [success |-> TRUE, data |-> deletedTask,
                              message |-> "Task deleted successfully"]),
          tasks |-> ts \ {deletedTask}]

----------------------------------------------------------------------------
(* Requests the clients can send *)

(* Registration forms, and two requests whose body has no name *)
RegisterBodies ==
    [name : Names, email : RawEmails, password : {"hunter22"}, confirmPassword : Passwords]
    \cup [email : {"bob@x.io"}, password : {"hunter22"}, confirmPassword : Passwords]

LoginBodies == [email : RawEmails \cup {""}, password : Passwords \cup {""}]

(* A forged token names a stored user but is signed with another key *)
Forged ==
    {jwtSign([userId |-> u._id, email |-> u.email], AttackerKey, now) : u \in users}

Tokens == {g.token : g \in issued}

Presentable == Tokens \cup Forged \cup {Malformed}

(* No credentials; a Bearer token; the auth-token cookie; and, with the first
   user's cookie, a malformed Bearer token, the second user's Bearer token,
   or a header of another scheme *)
Credentials ==
    {[authorization |-> NoHeader, cookie |-> NoCookie]}
    \cup {[authorization |-> Bearer(tk), cookie |-> NoCookie] : tk \in Presentable}
    \cup {[authorization |-> NoHeader, cookie |-> AuthCookie(tk)] : tk \in Tokens}
    \cup {[authorization |-> Bearer(Malformed), cookie |-> AuthCookie(g.token)] :
             g \in {i \in issued : i.user = 1}}
    \cup {[authorization |-> Bearer(g2.token), cookie |-> AuthCookie(g1.token)] :
             <<g1, g2>> \in {p \in issued \X issued : p[1].user = 1 /\ p[2].user = 2}}
    \cup {[authorization |-> Basic, cookie |-> AuthCookie(g.token)] :
             g \in {i \in issued : i.user = 1}}

(* Titles at and just over the length limit *)
Title200 ==
    "xxxxxxxxxxxxxxxxxxxxxxxxxxxxxxxxxxxxxxxxxxxxxxxxxxxxxxxxxxxxxxxxxxxxxxxxxxxxxxxxxxxxxxxxxxxxxxxxxxxxxxxxxxxxxxxxxxxxxxxxxxxxxxxxxxxxxxxxxxxxxxxxxxxxxxxxxxxxxxxxxxxxxxxxxxxxxxxxxxxxxxxxxxxxxxxxxxxxxxxx"
Title201 ==
    "xxxxxxxxxxxxxxxxxxxxxxxxxxxxxxxxxxxxxxxxxxxxxxxxxxxxxxxxxxxxxxxxxxxxxxxxxxxxxxxxxxxxxxxxxxxxxxxxxxxxxxxxxxxxxxxxxxxxxxxxxxxxxxxxxxxxxxxxxxxxxxxxxxxxxxxxxxxxxxxxxxxxxxxxxxxxxxxxxxxxxxxxxxxxxxxxxxxxxxxxx"

CreateBodies ==
    {[title |-> "Buy milk", priority |-> "low", category |-> "personal"],
     [title |-> "Buy milk", priority |-> "low", category |-> "personal",
      status |-> "completed"],
     [title |-> "", priority |-> "low", category |-> "personal"],
     [title |-> Title200, priority |-> "low", category |-> "personal"],
     [title |-> Title201, priority |-> "low", category |-> "personal"],
     [title |-> "   ", priority |-> "low", category |-> "personal"],
     [title |-> "Buy milk", priority |-> "low", category |-> "personal",
      dueDate |-> Date(now)]}

UpdateBodies ==
    {[status |-> s] : s \in TaskStatus}
    \cup {[priority |-> "bogus"], [dueDate |-> Date(now)],
          [status |-> "in_progress", userId |-> 2, completedAt |-> Date(0)]}

Queries ==
    {[status |-> "", priority |-> "", category |-> ""],
     [status |-> "completed", priority |-> "", category |-> ""],
     [status |-> "pending", priority |-> "low", category |-> "personal"],
     [status |-> "", priority |-> "high", category |-> ""],
     [status |-> "", priority |-> "low", category |-> "work"],
     [status |-> "done", priority |-> "", category |-> ""]}

TaskIds == 1..MaxTasks

----------------------------------------------------------------------------
(* The store connection: connectMongoDB and its module-level cache.  A
   connection is named by the number of the mongoose.connect call that
   opened it; 0 is null. *)

Callers == 1..MaxCallers

NotConnected == [conn |-> 0, promise |-> 0]

NotCalled == [pc |-> "idle"]

(* Mutant: the promise of a pending attempt is not reused *)
connectBegin_noPromiseCache(c, n, pending) ==
    IF c.conn # 0
    THEN [cached |-> c, connects |-> n, connecting |-> pending,
          caller |-> [pc |-> "returned", conn |-> c.conn]]
    ELSE [cached |-> [c EXCEPT !.promise = n + 1], connects |-> n + 1,
          connecting |-> pending \cup {n + 1},
          caller |-> [pc |-> "await", promise |-> n + 1]]

(* connectMongoDB() up to its await: return the cached connection, or start
   an attempt if none is pending, and wait for the pending one *)
connectBegin(c, n, pending) ==
    IF c.conn # 0
    THEN [cached |-> c, connects |-> n, connecting |-> pending,
          caller |-> [pc |-> "returned", conn |-> c.conn]]
    ELSE IF c.promise = 0
    THEN [cached |-> [c EXCEPT !.promise = n + 1], connects |-> n + 1,
          connecting |-> pending \cup {n + 1},
          caller |-> [pc |-> "await", promise |-> n + 1]]
    ELSE [cached |-> c, connects |-> n, connecting |-> pending,
          caller |-> [pc |-> "await", promise |-> c.promise]]

(* connectMongoDB() after its await, in a call that waited for attempt p:
   keep the connection, or reset the promise and rethrow *)
connectEnd(c, p, ok) ==
    IF ok
    THEN [cached |-> [c EXCEPT !.conn = p], caller |-> [pc |-> "returned", conn |-> p]]
    ELSE [cached |-> [c EXCEPT !.promise = 0], caller |-> [pc |-> "threw"]]

----------------------------------------------------------------------------
(* The AuthProvider of the client *)

NotMounted ==
    [user |-> 0, isLoading |-> TRUE, jar |-> NoToken,
     refresh |-> [pc |-> "idle"], login |-> [pc |-> "idle"], logout |-> [pc |-> "idle"]]

----------------------------------------------------------------------------
(* The state machine *)

Init ==
    /\ secret \in {ServerSecret, ""}
    /\ users = {}
    /\ inflight = [i \in 1..MaxInFlight |-> Idle]
    /\ tasks = {}
    /\ nextTaskId = 1
    /\ created = {}
    /\ issued = {}
    /\ now = 0
    /\ req = NoRequest
    /\ resp = NoResponse
    /\ cached = NotConnected
    /\ connecting = {}
    /\ connects = 0
    /\ callers = [c \in Callers |-> NotCalled]
    /\ client = NotMounted

(* A register request takes the first free slot and runs up to its save (or
   answers before it) *)
RegisterBegin ==
    \E i \in 1..MaxInFlight, body \in RegisterBodies, dbUp \in BOOLEAN :
        /\ inflight[i] = Idle
        /\ \A j \in 1..(i - 1) : inflight[j] # Idle
        /\ LET r == registerBegin(users, body, dbUp) IN
           /\ inflight' = [inflight EXCEPT ![i] = r.suspended]
           /\ req' = [op |-> "register", step |-> "begin", body |-> body, dbUp |-> dbUp]
           /\ resp' = r.resp
        /\ UNCHANGED <<cached, connecting, connects, callers, client, secret, users, tasks, nextTaskId, created, issued, now>>

(* A suspended register request saves its user and answers *)
RegisterSave ==
    \E i \in 1..MaxInFlight, dbUp \in BOOLEAN :
        /\ inflight[i] # Idle
        /\ LET r == registerSave(users, inflight[i].data, dbUp) IN
           /\ users' = r.users
           /\ inflight' = [inflight EXCEPT ![i] = Idle]
           /\ req' = [op |-> "register", step |-> "save", body |-> inflight[i].data,
                      dbUp |-> dbUp]
           /\ resp' = r.resp
        /\ UNCHANGED <<cached, connecting, connects, callers, client, secret, tasks, nextTaskId, created, issued, now>>

(* What a client holds after a successful login: whose credentials it sent,
   and the token of the response *)
grant(us, body, r) ==
    [user |-> (CHOOSE u \in us : u.email = toLowerCase(body.email))._id,
     token |-> r.body.data.token]

Login ==
    \E body \in LoginBodies, dbUp \in BOOLEAN :
        LET r == loginPOST(users, secret, now, body, dbUp)
            minted == IF r.status = 200 THEN {grant(users, body, r)} ELSE {}
        IN /\ Cardinality(issued \cup minted) <= MaxTokens
           /\ issued' = issued \cup minted
           /\ req' = [op |-> "login", body |-> body, dbUp |-> dbUp]
           /\ resp' = r
           /\ UNCHANGED <<cached, connecting, connects, callers, client, secret, users, inflight, tasks, nextTaskId, created, now>>

Me ==
    \E creds \in Credentials, dbUp \in BOOLEAN :
        /\ req' = [op |-> "me", creds |-> creds, dbUp |-> dbUp]
        /\ resp' = meGET(users, secret, now, creds, dbUp)
        /\ UNCHANGED <<cached, connecting, connects, callers, client, secret, users, inflight, tasks, nextTaskId, created, issued, now>>

(* Mutant: logout ends every session on the server by rotating the key *)
Logout_rotatesSecret ==
    /\ secret' = "rotated"
    /\ req' = [op |-> "logout"]
    /\ resp' = logoutPOST
    /\ UNCHANGED <<cached, connecting, connects, callers, client, users, inflight, tasks, nextTaskId, created, issued, now>>

Logout ==
    /\ req' = [op |-> "logout"]
    /\ resp' = logoutPOST
    /\ UNCHANGED <<cached, connecting, connects, callers, client, secret, users, inflight, tasks, nextTaskId, created, issued, now>>

TasksList ==
    \E creds \in Credentials, query \in Queries, dbUp \in BOOLEAN :
        /\ req' = [op |-> "tasks.GET", creds |-> creds, query |-> query, dbUp |-> dbUp]
        /\ resp' = tasksGET(tasks, secret, now, creds, query, dbUp)
        /\ UNCHANGED <<cached, connecting, connects, callers, client, secret, users, inflight, tasks, nextTaskId, created, issued, now>>

TaskCreate ==
    \E creds \in Credentials, body \in CreateBodies, dbUp \in BOOLEAN :
        /\ nextTaskId <= MaxTasks
        /\ LET r == tasksPOST(tasks, nextTaskId, secret, now, creds, body, dbUp) IN
           /\ tasks' = r.tasks
           /\ nextTaskId' = IF r.resp.status = 200 THEN nextTaskId + 1 ELSE nextTaskId
           /\ created' = IF r.resp.status = 200
                         THEN created \cup {[id |-> r.resp.body.data._id,
                                             by |-> getUserFromToken(creds, secret, now)]}
                         ELSE created
           /\ req' = [op |-> "tasks.POST", creds |-> creds, body |-> body, dbUp |-> dbUp]
           /\ resp' = r.resp
        /\ UNCHANGED <<cached, connecting, connects, callers, client, secret, users, inflight, issued, now>>

TaskRead ==
    \E creds \in Credentials, id \in TaskIds, dbUp \in BOOLEAN :
        /\ req' = [op |-> "task.GET", creds |-> creds, id |-> id, dbUp |-> dbUp]
        /\ resp' = taskGET(tasks, secret, now, creds, id, dbUp)
        /\ UNCHANGED <<cached, connecting, connects, callers, client, secret, users, inflight, tasks, nextTaskId, created, issued, now>>

TaskUpdate ==
    \E creds \in Credentials, id \in TaskIds, body \in UpdateBodies, dbUp \in BOOLEAN :
        LET r == taskPATCH(tasks, secret, now, creds, id, body, dbUp) IN
        /\ tasks' = r.tasks
        /\ req' = [op |-> "task.PATCH", creds |-> creds, id |-> id, body |-> body,
                   dbUp |-> dbUp,
                   before |-> findOneTask(tasks, id, getUserFromToken(creds, secret, now))]
        /\ resp' = r.resp
        /\ UNCHANGED <<cached, connecting, connects, callers, client, secret, users, inflight, nextTaskId, created, issued, now>>

TaskRemove ==
    \E creds \in Credentials, id \in TaskIds, dbUp \in BOOLEAN :
        LET r == taskDELETE(tasks, secret, now, creds, id, dbUp) IN
        /\ tasks' = r.tasks
        /\ created' = IF r.resp.status = 200
                      THEN {c \in created : c.id # r.resp.body.data._id}
                      ELSE created
        /\ req' = [op |-> "task.DELETE", creds |-> creds, id |-> id, dbUp |-> dbUp]
        /\ resp' = r.resp
        /\ UNCHANGED <<cached, connecting, connects, callers, client, secret, users, inflight, nextTaskId, issued, now>>

TestDb ==
    \E dbUp \in BOOLEAN :
        /\ req' = [op |-> "test-db", dbUp |-> dbUp]
        /\ resp' = testDbGET(users, tasks, dbUp)
        /\ UNCHANGED <<cached, connecting, connects, callers, client, secret, users, inflight, tasks, nextTaskId, created, issued, now>>

(* The cookie header the browser sends with credentials: 'include' *)
jarCredentials(jar) ==
    [authorization |-> NoHeader,
     cookie |-> IF jar = NoToken THEN NoCookie ELSE AuthCookie(jar)]

(* refreshUser() after its fetch: the user it sets *)
refreshed(r, user) ==
    IF r.status = 200 /\ r.body.success /\ "data" \in DOMAIN r.body
    THEN r.body.data._id
    ELSE 0

(* refreshUser() (run on mount, and on demand): the fetch of /api/auth/me
   leaves with the cookie the jar holds now *)
RefreshSend ==
    \E dbUp \in BOOLEAN :
        /\ client.refresh.pc = "idle"
        /\ client' = [client EXCEPT !.refresh =
                         [pc |-> "sent",
                          resp |-> meGET(users, secret, now, jarCredentials(client.jar), dbUp),
                          sinceLogin |-> client.login.pc = "resolved" /\ client.login.success]]
        /\ UNCHANGED <<secret, users, inflight, tasks, nextTaskId, created, issued, now,
                       req, resp, cached, connecting, connects, callers>>

(* The response of /api/auth/me arrives *)
RefreshReceive ==
    /\ client.refresh.pc = "sent"
    /\ client' = [client EXCEPT !.user = refreshed(client.refresh.resp, client.user),
                                !.isLoading = FALSE,
                                !.refresh = [pc |-> "idle"]]
    /\ UNCHANGED <<secret, users, inflight, tasks, nextTaskId, created, issued, now,
                   req, resp, cached, connecting, connects, callers>>

(* login(credentials) up to its fetch *)
LoginSend ==
    \E body \in LoginBodies, dbUp \in BOOLEAN :
        /\ client.login.pc # "sent"
        /\ client.logout.pc = "idle"
        /\ client' = [client EXCEPT !.isLoading = TRUE,
                                    !.login = [pc |-> "sent",
                                               resp |-> loginPOST(users, secret, now, body, dbUp),
                                               success |-> client.login.pc = "resolved"
                                                           /\ client.login.success]]
        /\ UNCHANGED <<secret, users, inflight, tasks, nextTaskId, created, issued, now,
                       req, resp, cached, connecting, connects, callers>>

(* The response of /api/auth/login arrives: the browser stores its cookie,
   login() sets the user and resolves *)
LoginReceive ==
    /\ client.login.pc = "sent"
    /\ LET r == client.login.resp
           ok == r.body.success /\ "data" \in DOMAIN r.body
       IN client' = [client EXCEPT
                       !.jar = IF r.cookies = {} THEN @
                               ELSE (CHOOSE c \in r.cookies : TRUE).value,
                       !.user = IF ok THEN r.body.data.user._id ELSE @,
                       !.isLoading = FALSE,
                       !.login = [pc |-> "resolved", success |-> ok \/ client.login.success]]
    /\ UNCHANGED <<secret, users, inflight, tasks, nextTaskId, created, issued, now,
                   req, resp, cached, connecting, connects, callers>>

(* logout() is called, up to its fetch *)
LogoutSend ==
    /\ client.logout.pc = "idle"
    /\ client.login.pc # "sent"
    /\ client' = [client EXCEPT !.isLoading = TRUE,
                                !.logout = [pc |-> "sent"],
                                !.login = [pc |-> "idle"]]
    /\ UNCHANGED <<secret, users, inflight, tasks, nextTaskId, created, issued, now,
                   req, resp, cached, connecting, connects, callers>>

(* The response of /api/auth/logout arrives: the cookie is cleared *)
LogoutReceive ==
    /\ client.logout.pc = "sent"
    /\ client' = [client EXCEPT !.jar = NoToken,
                                !.user = 0,
                                !.isLoading = FALSE,
                                !.logout = [pc |-> "idle"]]
    /\ UNCHANGED <<secret, users, inflight, tasks, nextTaskId, created, issued, now,
                   req, resp, cached, connecting, connects, callers>>

(* A request calls connectMongoDB and runs it up to its await *)
ConnectCall ==
    \E c \in Callers :
        /\ callers[c].pc = "idle"
        /\ LET r == connectBegin(cached, connects, connecting) IN
           /\ r.connects <= MaxConnects
           /\ cached' = r.cached
           /\ connects' = r.connects
           /\ connecting' = r.connecting
           /\ callers' = [callers EXCEPT ![c] = r.caller]
        /\ UNCHANGED <<secret, users, inflight, tasks, nextTaskId, created, issued, now,
                       req, resp, client>>

(* A pending attempt settles.  The calls that wait for it resume one after
   the other in the same turn of the microtask queue, before any other
   request runs, so they resume in one step. *)
ConnectSettle ==
    \E p \in connecting, ok \in BOOLEAN :
        LET waiting == {c \in Callers : callers[c].pc = "await" /\ callers[c].promise = p} IN
        /\ connecting' = connecting \ {p}
        /\ cached' = IF waiting = {} THEN cached ELSE connectEnd(cached, p, ok).cached
        /\ callers' = [c \in Callers |->
                          IF c \in waiting THEN connectEnd(cached, p, ok).caller
                          ELSE callers[c]]
        /\ UNCHANGED <<secret, users, inflight, tasks, nextTaskId, created, issued, now,
                       req, resp, connects, client>>

(* The request that called connectMongoDB ends *)
ConnectDone ==
    \E c \in Callers :
        /\ callers[c].pc \in {"returned", "threw"}
        /\ callers' = [callers EXCEPT ![c] = NotCalled]
        /\ UNCHANGED <<secret, users, inflight, tasks, nextTaskId, created, issued, now,
                       req, resp, cached, connecting, connects, client>>

(* A day passes; no request is being answered *)
Tick ==
    /\ now < MaxTime
    /\ now' = now + 1
    /\ req' = NoRequest
    /\ resp' = NoResponse
    /\ UNCHANGED <<cached, connecting, connects, callers, client, secret, users, inflight, tasks, nextTaskId, created, issued>>

Next ==
    \/ RegisterBegin
    \/ RegisterSave
    \/ Login
    \/ Me
    \/ Logout
    \/ TasksList
    \/ TaskCreate
    \/ TaskRead
    \/ TaskUpdate
    \/ TaskRemove
    \/ TestDb
    \/ Tick
    \/ ConnectCall
    \/ ConnectSettle
    \/ ConnectDone
    \/ RefreshSend
    \/ RefreshReceive
    \/ LoginSend
    \/ LoginReceive
    \/ LogoutSend
    \/ LogoutReceive

Spec == Init /\ [][Next]_vars

(* The auth routes alone: registrations interleave, logins mint tokens *)
NextAuth ==
    \/ RegisterBegin
    \/ RegisterSave
    \/ Login
    \/ Me
    \/ Logout

SpecAuth == Init /\ [][NextAuth]_vars

(* Two registered users, as two completed registrations leave them *)
Ann ==
    UserPreSave([_id |-> 1, name |-> "Ann", email |-> "ann@x.io",
                 password |-> "hunter22", avatar |-> "null"])
Bob ==
    UserPreSave([_id |-> 2, name |-> "Ann", email |-> "bob@x.io",
                 password |-> "hunter22", avatar |-> "null"])

(* What their logins on day 0 return *)
loginsOf(us, key) ==
    LET r(body) == loginPOST(us, key, 0, body, TRUE) IN
    {grant(us, body, r(body)) : body \in {b \in LoginBodies : r(b).status = 200}}

(* The task routes, after both users have registered and logged in on day 0,
   from two days before their tokens expire *)
InitTasks ==
    /\ secret \in {ServerSecret, ""}
    /\ users = {Ann, Bob}
    /\ inflight = [i \in 1..MaxInFlight |-> Idle]
    /\ tasks = {}
    /\ nextTaskId = 1
    /\ created = {}
    /\ issued = loginsOf(users, secret)
    /\ now = TokenLifetime - 2
    /\ req = NoRequest
    /\ resp = NoResponse
    /\ cached = NotConnected
    /\ connecting = {}
    /\ connects = 0
    /\ callers = [c \in Callers |-> NotCalled]
    /\ client = NotMounted

NextTasks ==
    \/ Me
    \/ TasksList
    \/ TaskCreate
    \/ TaskRead
    \/ TaskUpdate
    \/ TaskRemove
    \/ Tick

SpecTasks == InitTasks /\ [][NextTasks]_vars

(* Sessions over time: logged-in users use their tokens, log out, and days
   pass *)
NextSession ==
    \/ Logout
    \/ Me
    \/ TestDb
    \/ TasksList
    \/ TaskCreate
    \/ Tick

SpecSession == InitTasks /\ [][NextSession]_vars

(* The store connection under concurrent requests *)
NextConnect ==
    \/ ConnectCall
    \/ ConnectSettle
    \/ ConnectDone

SpecConnect == Init /\ [][NextConnect]_vars

(* One browser tab against the server with two registered users *)
NextClient ==
    \/ RefreshSend
    \/ RefreshReceive
    \/ LoginSend
    \/ LoginReceive
    \/ LogoutSend
    \/ LogoutReceive

SpecClient == InitTasks /\ [][NextClient]_vars

----------------------------------------------------------------------------
(* Properties *)

(* The caller a request's credentials resolve to at the current clock *)
callerOf(r) == getUserFromToken(r.creds, secret, now)

TaskOps == {"tasks.GET", "tasks.POST", "task.GET", "task.PATCH", "task.DELETE"}
TaskIdOps == {"task.GET", "task.PATCH", "task.DELETE"}

(* C1: in every state reachable by task creates, updates and deletes, every
   stored task has completedAt set if and only if its status is completed. *)
C1_CompletedAtIffCompleted ==
    \A x \in tasks : x.completedAt.set <=> x.status = "completed"

(* C2: for users A # B, no GET /tasks/:id by A returns a task of B, and no
   PATCH or DELETE /tasks/:id by A changes or removes a task of B: the tasks
   of every user other than the caller are the same after the request. *)
C2_OwnerIsolation ==
    [][req'.op \in TaskIdOps =>
         LET a == callerOf(req') IN
         /\ \A x \in tasks : x.userId # a => x \in tasks'
         /\ \A x \in tasks' : x.userId # a => x \in tasks
         /\ "data" \in DOMAIN resp'.body => resp'.body.data.userId = a]_vars

(* A caller patched the id of another user's stored task, and got a 404 *)
C2_Witness ==
    /\ req.op = "task.PATCH"
    /\ callerOf(req) # 0
    /\ \E x \in tasks : x._id = req.id /\ x.userId # callerOf(req)
    /\ resp.status = 404

(* The PATCH body passes the request schema and the model's validators *)
validUpdate(body) ==
    LET v == UpdateTaskSchema(body, now) IN
    v.success /\ taskValidators(v.data, DOMAIN v.data, now)

(* C3: for an authenticated caller and any task id, GET, PATCH (with a valid
   body) and DELETE /tasks/:id answer with the same 404 response when the
   task does not exist and when it exists and is owned by another user. *)
C3_SameNotFound ==
    [][(/\ req'.op \in TaskIdOps
        /\ callerOf(req') # 0
        /\ req'.dbUp
        /\ req'.op = "task.PATCH" => validUpdate(req'.body)
        /\ \/ \A x \in tasks : x._id # req'.id
           \/ \E x \in tasks : x._id = req'.id /\ x.userId # callerOf(req'))
       => resp' = TaskNotFound]_vars

(* A caller asked to delete the stored task of another user, and got the 404 *)
C3_Witness ==
    /\ req.op = "task.DELETE"
    /\ callerOf(req) # 0
    /\ \E x \in tasks : x._id = req.id /\ x.userId # callerOf(req)
    /\ resp = TaskNotFound

(* The request carries no token, or one that jwt.verify rejects *)
rejected(r) ==
    LET tk == extractToken(r.creds) IN
    tk.kind # "jwt" \/ tk.key # secret \/ secret = "" \/ now >= tk.exp

(* C7: every task endpoint answers 401 to a request with no token or with a
   token that fails verification, and leaves the task store unchanged. *)
C7_UnauthenticatedIs401 ==
    [][(req'.op \in TaskOps /\ rejected(req'))
       => (resp'.status = 401 /\ tasks' = tasks /\ nextTaskId' = nextTaskId)]_vars

(* A delete of a stored task with a forged token was answered 401 *)
C7_Witness ==
    /\ req.op = "task.DELETE"
    /\ extractToken(req.creds) \in Forged
    /\ \E x \in tasks : x._id = req.id /\ x.userId = extractToken(req.creds).userId
    /\ resp.status = 401

(* C8: a token expires 7 days after its issue; once its expiry has passed,
   GET /auth/me and every task endpoint answer 401 to it, return no data and
   change nothing. *)
C8_ExpiredIs401 ==
    [][/\ \A g \in issued : g.token.exp = g.token.iat + 7
       /\ (/\ req'.op \in TaskOps \cup {"me"}
           /\ extractToken(req'.creds) \in Tokens
           /\ now >= extractToken(req'.creds).iat + 7)
          => /\ resp'.status = 401
             /\ "data" \notin DOMAIN resp'.body
             /\ tasks' = tasks]_vars

(* The owner's token, presented on the day it expires, no longer patches the
   owner's stored task *)
C8_Witness ==
    /\ req.op = "task.PATCH"
    /\ \E g \in issued :
          /\ extractToken(req.creds) = g.token
          /\ now = g.token.iat + 7
          /\ \E x \in tasks : x._id = req.id /\ x.userId = g.user
    /\ resp.status = 401

(* C9: a token minted by a successful login of user U and presented before
   its expiry resolves to exactly U: GET /auth/me returns U's id and email,
   and every task operation made with it reads, creates and changes tasks of
   U only. *)
C9_TokenResolvesToItsUser ==
    [][\A g \in issued :
         (/\ req'.op \in TaskOps \cup {"me"}
          /\ extractToken(req'.creds) = g.token
          /\ now < g.token.exp)
         => /\ resp'.status # 401
            /\ (req'.op = "me" /\ req'.dbUp) =>
                  /\ resp'.status = 200
                  /\ \E u \in users : /\ u._id = g.user
                                      /\ resp'.body.data._id = u._id
                                      /\ resp'.body.data.email = u.email
            /\ (req'.op = "tasks.GET" /\ resp'.status = 200) =>
                  \A i \in DOMAIN resp'.body.data : resp'.body.data[i].userId = g.user
            /\ (req'.op \in TaskOps \ {"tasks.GET"} /\ resp'.status = 200) =>
                  resp'.body.data.userId = g.user
            /\ \A x \in tasks \cup tasks' : x.userId # g.user => x \in tasks \cap tasks']_vars

(* Bob's token created a task, and the task is Bob's *)
C9_Witness ==
    /\ req.op = "tasks.POST"
    /\ \E g \in issued : /\ extractToken(req.creds) = g.token
                         /\ g.user = 2
                         /\ now < g.token.exp
                         /\ resp.status = 200
                         /\ resp.body.data \in tasks
                         /\ resp.body.data.userId = g.user

(* The response hands out a session token, in its payload or in a cookie *)
carriesToken(r) ==
    \/ \E c \in r.cookies : c.value.kind = "jwt"
    \/ /\ "data" \in DOMAIN r.body
       /\ "token" \in DOMAIN r.body.data

(* C4: a session token, in the payload and in the auth-token cookie, is
   issued only by a login whose email matches a stored user and whose
   password verifies against that user's hash; every other login outcome
   (400, 401, 500) carries no token and sets no cookie, and no other auth
   route hands out a token. *)
C4_TokenOnlyOnVerifiedLogin ==
    /\ req.op \in {"register", "me", "logout"} => ~carriesToken(resp)
    /\ req.op = "login" =>
          /\ resp.status \in {200, 400, 401, 500}
          /\ resp.status # 200 => (~carriesToken(resp) /\ resp.cookies = {})
          /\ resp.status = 200 =>
                /\ \E u \in users :
                      /\ u.email = toLowerCase(req.body.email)
                      /\ u.password = bcryptHash(req.body.password)
                      /\ resp.body.data.token.userId = u._id
                /\ \E c \in resp.cookies :
                      c.name = "auth-token" /\ c.value = resp.body.data.token

(* A login with the user's password got the token in payload and cookie *)
C4_Witness ==
    /\ req.op = "login"
    /\ resp.status = 200
    /\ \E c \in resp.cookies : c.value = resp.body.data.token

(* C5: login with a registered email and a wrong password returns the same
   status (401) and the same body as login with an email of no user. *)
C5_SameLoginFailure ==
    /\ \A u \in users, e \in RawEmails, pw1, pw2 \in Passwords, dbUp \in BOOLEAN :
          (/\ u.password # bcryptHash(pw1)
           /\ \A v \in users : v.email # toLowerCase(e))
          => LET wrong == loginPOST(users, secret, now,
                                    [email |-> u.email, password |-> pw1], dbUp)
                 unknown == loginPOST(users, secret, now,
                                      [email |-> e, password |-> pw2], dbUp)
             IN wrong = unknown /\ (dbUp => wrong.status = 401)
    /\ (/\ req.op = "login"
        /\ req.dbUp
        /\ req.body.email # ""
        /\ req.body.password # ""
        /\ \A u \in users : \/ u.email # toLowerCase(req.body.email)
                            \/ u.password # bcryptHash(req.body.password))
       => resp = Failure(401, "Invalid email or password")

(* A login with a registered email and a wrong password got the 401 *)
C5_Witness ==
    /\ req.op = "login"
    /\ \E u \in users : /\ u.email = toLowerCase(req.body.email)
                        /\ req.body.password # ""
                        /\ u.password # bcryptHash(req.body.password)
    /\ resp.status = 401

(* Passwords and their digests *)
Secrets == Passwords \cup {bcryptHash(pw) : pw \in Passwords}

(* A user object of a response has no password field and no secret value *)
withoutPassword(obj) ==
    /\ "password" \notin DOMAIN obj
    /\ \A f \in DOMAIN obj \ {"_id"} : obj[f] \notin Secrets

(* C6: no response of register, login or GET /auth/me, on any outcome,
   contains the user's password or password hash. *)
C6_NoPasswordInResponses ==
    req.op \in {"register", "login", "me"} =>
        /\ \A f \in DOMAIN resp.body \cap {"error", "message", "details"} :
              resp.body[f] \notin Secrets
        /\ "fieldErrors" \in DOMAIN resp.body =>
              \A f \in DOMAIN resp.body.fieldErrors : resp.body.fieldErrors[f] \notin Secrets
        /\ "data" \in DOMAIN resp.body =>
              IF req.op = "login"
              THEN /\ withoutPassword(resp.body.data.user)
                   /\ "password" \notin DOMAIN resp.body.data.token
              ELSE withoutPassword(resp.body.data)

(* A registration was answered with the new user, whose digest is stored *)
C6_Witness ==
    /\ req.op = "register"
    /\ resp.status = 200
    /\ \E u \in users : /\ u._id = resp.body.data._id
                        /\ u.password \in Secrets

(* C10: no two stored users have the same email, also after interleaved
   registrations of one email (compared after lowercasing); a registration
   for an email that is already registered gets 400 and creates no user. *)
C10_UniqueEmails ==
    [][/\ \A u, v \in users' : u.email = v.email => u = v
       /\ (/\ req'.op = "register"
           /\ req'.dbUp
           /\ \E u \in users : u.email = toLowerCase(req'.body.email))
          => (resp'.status = 400 /\ users' = users)]_vars

(* Of two interleaved registrations of one email, the second to save was
   refused and the user is stored once *)
C10_Witness ==
    /\ req.op = "register"
    /\ req.step = "save"
    /\ resp.status = 400
    /\ Cardinality({u \in users : u.email = toLowerCase(req.body.email)}) = 1

(* C11 as stated: a registration whose password differs from confirmPassword
   gets a 400 whose fieldErrors has a confirmPassword entry, and no user is
   created. *)
C11_MismatchNamesConfirmPassword ==
    [][(/\ req'.op = "register"
        /\ req'.step = "begin"
        /\ req'.dbUp
        /\ req'.body.password # req'.body.confirmPassword)
       => /\ resp'.status = 400
          /\ "fieldErrors" \in DOMAIN resp'.body
          /\ "confirmPassword" \in DOMAIN resp'.body.fieldErrors
          /\ users' = users
          /\ inflight' = inflight]_vars

(* C11, amended: a registration whose password differs from confirmPassword
   gets a 400 with a fieldErrors map and creates no user; the map has a
   confirmPassword entry when name, email, password and confirmPassword are
   all given as strings, and otherwise names the fields that are not. *)
C11_MismatchRejected ==
    [][(/\ req'.op = "register"
        /\ req'.step = "begin"
        /\ req'.dbUp
        /\ req'.body.password # req'.body.confirmPassword)
       => /\ resp'.status = 400
          /\ "fieldErrors" \in DOMAIN resp'.body
          /\ IF RegisterFields \subseteq DOMAIN req'.body
             THEN "confirmPassword" \in DOMAIN resp'.body.fieldErrors
             ELSE \A f \in RegisterFields \ DOMAIN req'.body :
                     f \in DOMAIN resp'.body.fieldErrors
          /\ users' = users
          /\ inflight' = inflight]_vars

(* A complete form for an unregistered email, with two different passwords,
   was refused with the confirmPassword entry *)
C11_Witness ==
    /\ req.op = "register"
    /\ req.step = "begin"
    /\ req.dbUp
    /\ RegisterFields \subseteq DOMAIN req.body
    /\ req.body.password # req.body.confirmPassword
    /\ \A u \in users : u.email # toLowerCase(req.body.email)
    /\ resp.status = 400
    /\ "confirmPassword" \in DOMAIN resp.body.fieldErrors

(* The entries of a list response, as a set *)
listed(r) == {r.body.data[i] : i \in DOMAIN r.body.data}

(* The filters of a query that are present *)
present(q) == {k \in DOMAIN q : q[k] # ""}

(* C12: GET /tasks for caller U with any subset of the filters status,
   priority, category returns exactly the stored tasks owned by U whose field
   equals the given value for every filter that is present; an absent or
   empty filter constrains nothing, and no task of another user is returned. *)
C12_ListFilters ==
    [][(/\ req'.op = "tasks.GET"
        /\ callerOf(req') # 0
        /\ req'.dbUp
        /\ \A k \in present(req'.query) :
              req'.query[k] \in TaskStatus \cup TaskPriority \cup TaskCategory)
       => /\ resp'.status = 200
          /\ listed(resp') = {x \in tasks : /\ x.userId = callerOf(req')
                                             /\ \A k \in present(req'.query) :
                                                   x[k] = req'.query[k]}
          /\ Len(resp'.body.data) = Cardinality(listed(resp'))
          /\ tasks' = tasks]_vars

(* A list with all three filters returned the caller's matching task *)
C12_Witness ==
    /\ req.op = "tasks.GET"
    /\ present(req.query) = {"status", "priority", "category"}
    /\ resp.status = 200
    /\ \E x \in tasks : x.userId = callerOf(req) /\ resp.body.data = <<x>>

(* C13: after any sequence of successful creates and deletes, an unfiltered
   GET /tasks for user U returns exactly the tasks U created and has not
   deleted: one entry after one create, none after that task is deleted. *)
C13_ListIsCreatedLessDeleted ==
    [][(/\ req'.op = "tasks.GET"
        /\ present(req'.query) = {}
        /\ resp'.status = 200)
       => /\ {x._id : x \in listed(resp')}
               = {c.id : c \in {d \in created : d.by = callerOf(req')}}
          /\ Len(resp'.body.data) = Cardinality({d \in created : d.by = callerOf(req')})]_vars

(* A user who created one task and deleted it lists no task *)
C13_Witness ==
    /\ req.op = "tasks.GET"
    /\ present(req.query) = {}
    /\ resp.status = 200
    /\ resp.body.data = <<>>
    /\ nextTaskId > 1
    /\ created = {}

(* The stored task a request with an id addresses, for its caller *)
target(r) == CHOOSE x \in tasks : x._id = r.id /\ x.userId = callerOf(r)

(* A PATCH with a status in its body was answered 200 *)
statusPatched(r, rs) ==
    /\ r.op = "task.PATCH"
    /\ "status" \in DOMAIN r.body
    /\ rs.status = 200

(* C14: a PATCH /tasks/:id whose body changes status re-derives completedAt:
   after a PATCH to completed on a task with no completedAt the task has
   completedAt set, and after a PATCH from completed to pending or
   in_progress the task has completedAt cleared. *)
C14_PatchRederivesCompletedAt ==
    [][statusPatched(req', resp') =>
         LET old == target(req')
             new == resp'.body.data
         IN /\ new \in tasks'
            /\ (req'.body.status = "completed" /\ ~old.completedAt.set)
                  => new.completedAt.set
            /\ (old.status = "completed" /\ req'.body.status # "completed")
                  => ~new.completedAt.set]_vars

(* C15: completing is idempotent on completedAt: a PATCH {status: completed}
   on a task that is already completed leaves its completedAt unchanged. *)
C15_CompleteIsIdempotent ==
    [][(statusPatched(req', resp') /\ req'.body.status = "completed") =>
         LET old == target(req')
             new == resp'.body.data
         IN old.status = "completed" =>
               /\ new \in tasks'
               /\ new.status = "completed"
               /\ new.completedAt = old.completedAt]_vars

(* An already completed task was completed again, a day into the run *)
C15_Witness ==
    /\ statusPatched(req, resp)
    /\ req.body.status = "completed"
    /\ now = TokenLifetime - 1
    /\ \E x \in req.before : x.status = "completed"
    /\ resp.body.data \in tasks
    /\ resp.body.data \in req.before

(* C16: for a task owned by the caller and any statuses s, t, a PATCH
   {status: t} on the task in status s succeeds and leaves the task with
   status t; no status transition is forbidden. *)
C16_AnyStatusTransition ==
    [][(/\ req'.op = "task.PATCH"
        /\ req'.dbUp
        /\ \E st \in TaskStatus : req'.body = [status |-> st]
        /\ \E x \in tasks : x._id = req'.id /\ x.userId = callerOf(req'))
       => LET old == target(req') IN
          /\ resp'.status = 200
          /\ resp'.body.data.status = req'.body.status
          /\ tasks' = (tasks \ {old}) \cup {resp'.body.data}
          /\ \A k \in DOMAIN old \ {"status"} : resp'.body.data[k] = old[k]]_vars

(* A completed task was reopened *)
C16_Witness ==
    /\ statusPatched(req, resp)
    /\ req.body.status = "pending"
    /\ \E x \in req.before : x.status = "completed"
    /\ resp.body.data \in tasks
    /\ resp.body.data.status = "pending"

(* C17 as stated: POST /tasks stores the new task with status pending when
   the body gives no status, and with the given status when it gives one. *)
C17_CreateStatusFromBody ==
    [][(req'.op = "tasks.POST" /\ resp'.status = 200)
       => /\ resp'.body.data \in tasks'
          /\ resp'.body.data.status = IF "status" \in DOMAIN req'.body
                                       THEN req'.body.status ELSE "pending"]_vars

(* C17, amended: POST /tasks stores the new task with status pending,
   whether or not the request body gives a status; a status in the body is
   neither stored nor rejected. *)
C17_CreateStatusPending ==
    [][/\ (req'.op = "tasks.POST" /\ resp'.status = 200)
          => /\ resp'.body.data \in tasks' \ tasks
             /\ resp'.body.data.status = "pending"
       /\ (/\ req'.op = "tasks.POST"
           /\ callerOf(req') # 0
           /\ req'.dbUp
           /\ req'.body = [title |-> "Buy milk", priority |-> "low",
                            category |-> "personal", status |-> "completed"])
          => resp'.status = 200]_vars

(* A create that asked for status completed stored a pending task *)
C17_Witness ==
    /\ req.op = "tasks.POST"
    /\ "status" \in DOMAIN req.body
    /\ req.body.status = "completed"
    /\ resp.status = 200
    /\ resp.body.data \in tasks
    /\ resp.body.data.status = "pending"

(* C18: POST /tasks rejects every title longer than 200 characters with a
   400 whose fieldErrors has a title entry and stores nothing, and accepts a
   title of exactly 200 characters: the task is stored with that title. *)
C18_TitleBound ==
    [][(req'.op = "tasks.POST" /\ callerOf(req') # 0)
       => /\ Len(req'.body.title) > 200
               => /\ resp'.status = 400
                  /\ "fieldErrors" \in DOMAIN resp'.body
                  /\ "title" \in DOMAIN resp'.body.fieldErrors
                  /\ tasks' = tasks
          /\ (/\ Len(req'.body.title) = 200
              /\ trim(req'.body.title) = req'.body.title
              /\ req'.dbUp
              /\ CreateTaskSchema([req'.body EXCEPT !.title = "Buy milk"], now).success)
               => /\ resp'.status = 200
                  /\ resp'.body.data.title = req'.body.title
                  /\ tasks' = tasks \cup {resp'.body.data}]_vars

(* A title of 200 characters was accepted and stored *)
C18_Witness ==
    /\ req.op = "tasks.POST"
    /\ Len(req.body.title) = 200
    /\ resp.status = 200
    /\ \E x \in tasks : x.title = req.body.title

(* C19: every rejection of a task write (POST /tasks, PATCH /tasks/:id) for
   violating a field constraint is a 400 response that carries a fieldErrors
   map naming the offending field, never only a single message. *)
C19_RejectionsCarryFieldErrors ==
    [][(req'.op \in {"tasks.POST", "task.PATCH"} /\ resp'.status = 400)
       => /\ "fieldErrors" \in DOMAIN resp'.body
          /\ DOMAIN resp'.body.fieldErrors # {}
          /\ DOMAIN resp'.body.fieldErrors \subseteq UpdateKeys
          /\ tasks' = tasks]_vars

(* The response to a request without usable credentials, by endpoint *)
unauthenticated(op, creds) ==
    CASE op = "me" -> meGET(users, secret, now, creds, TRUE)
      [] op = "tasks.GET" ->
            tasksGET(tasks, secret, now, creds, CHOOSE q \in Queries : TRUE, TRUE)
      [] op = "tasks.POST" ->
            tasksPOST(tasks, nextTaskId, secret, now, creds,
                      CHOOSE b \in CreateBodies : TRUE, TRUE).resp
      [] op = "task.GET" -> taskGET(tasks, secret, now, creds, 1, TRUE)
      [] op = "task.PATCH" ->
            taskPATCH(tasks, secret, now, creds, 1, [status |-> "pending"], TRUE).resp
      [] op = "task.DELETE" -> taskDELETE(tasks, secret, now, creds, 1, TRUE).resp

(* C20: a missing token, a malformed or badly signed token, and an expired
   token all produce the same response on every authenticated endpoint, GET
   /auth/me included: the causes of a 401 cannot be told apart. *)
C20_SameUnauthenticatedResponse ==
    (req.op \in TaskOps \cup {"me"} /\ secret # "" /\ rejected(req))
       => /\ resp.status = 401
          /\ resp = unauthenticated(req.op, [authorization |-> NoHeader, cookie |-> NoCookie])

(* The server accepts the token of a grant as its user *)
accepted(g) ==
    getUserFromToken([authorization |-> Bearer(g.token), cookie |-> NoCookie],
                     secret, now) = g.user

(* C21: POST /auth/logout does not invalidate the token on the server: a
   request that presents an issued, unexpired token after a logout is still
   authenticated as the same user, and expiry is the only event after which
   the token stops being accepted. *)
C21_LogoutDoesNotRevoke ==
    [][\A g \in issued :
         /\ (accepted(g) /\ req'.op = "logout") => accepted(g)'
         /\ (accepted(g) /\ ~accepted(g)') => (now < g.token.exp /\ now' >= g.token.exp)
         /\ (/\ req.op = "logout"
             /\ accepted(g)
             /\ req'.op \in TaskOps \cup {"me"}
             /\ extractToken(req'.creds) = g.token)
            => /\ resp'.status # 401
               /\ (req'.op = "me" /\ req'.dbUp)
                     => (resp'.status = 200 /\ resp'.body.data._id = g.user)
               /\ (req'.op = "tasks.POST" /\ resp'.status = 200)
                     => resp'.body.data.userId = g.user]_vars

(* After a logout, with a task of hers stored, a user's token is still the
   one the server accepts as her *)
C21_Witness ==
    /\ req.op = "logout"
    /\ resp.status = 200
    /\ \E g \in issued : /\ accepted(g)
                          /\ \E x \in tasks : x.userId = g.user

(* C22: the cookies written by login and by logout both have name
   auth-token, are http-only, have sameSite lax and path /; the login cookie
   has a 7-day max-age, the logout cookie max-age 0 and an empty value. *)
C22_CookieContract ==
    (req.op \in {"login", "logout"} /\ resp.status = 200) =>
        /\ Cardinality(resp.cookies) = 1
        /\ \A c \in resp.cookies :
              /\ c.name = "auth-token"
              /\ c.httpOnly
              /\ c.sameSite = "lax"
              /\ c.path = "/"
              /\ req.op = "login" => (c.maxAge = 7 /\ c.value = resp.body.data.token)
              /\ req.op = "logout" => (c.maxAge = 0 /\ c.value = NoToken)

(* The response the same request gets from a server whose secret is set *)
withSecret(r) ==
    CASE r.op = "login" -> loginPOST(users, ServerSecret, now, r.body, r.dbUp)
      [] r.op = "me" -> meGET(users, ServerSecret, now, r.creds, r.dbUp)
      [] r.op = "tasks.GET" -> tasksGET(tasks, ServerSecret, now, r.creds, r.query, r.dbUp)
      [] r.op = "task.GET" -> taskGET(tasks, ServerSecret, now, r.creds, r.id, r.dbUp)
      [] OTHER -> NoResponse

(* C23: if the signing secret is unconfigured the service aborts at startup
   and handles no request: a missing secret is never surfaced as a failure
   response to a request (neither a 401 nor a 500) by login, GET /auth/me or
   a task endpoint. *)
C23_MissingSecretNeverPerRequest ==
    (secret = "" /\ req.op \in {"login", "me", "tasks.GET", "task.GET"})
       => ~(resp.status \in {401, 500} /\ resp # withSecret(req))

(* C26: when a store call fails during an API request, the handler does not
   retry, answers with a 500 that carries only a generic message (no detail
   of the underlying error), and leaves stored users and tasks unchanged. *)
C26_StoreFailureIsGeneric500 ==
    [][("dbUp" \in DOMAIN req' /\ ~req'.dbUp /\ resp'.status \notin {400, 401})
       => /\ resp'.status = 500
          /\ DOMAIN resp'.body = {"success", "error"}
          /\ resp'.body.error # StoreError
          /\ users' = users
          /\ tasks' = tasks]_vars

(* jwt.verify accepts the token now *)
verifies(tk) == tk.kind = "jwt" /\ tk.key = secret /\ secret # "" /\ now < tk.exp

(* The response identifies user u as the caller *)
servedAs(r, rs, u) ==
    /\ rs.status # 401
    /\ (r.op = "me" /\ r.dbUp) => (rs.status = 200 /\ rs.body.data._id = u)
    /\ (r.op = "tasks.POST" /\ rs.status = 200) => rs.body.data.userId = u
    /\ (r.op = "tasks.GET" /\ rs.status = 200) =>
          \A i \in DOMAIN rs.body.data : rs.body.data[i].userId = u

(* C24: the session extractor takes the token from an Authorization: Bearer
   header when one is present and consults the auth-token cookie only when
   no Bearer header is present: with both the caller is the header token's
   user, and an invalid header token is not rescued by a valid cookie. *)
C24_BearerBeforeCookie ==
    [][(req'.op \in TaskOps \cup {"me"} /\ secret # "") =>
         LET h == req'.creds.authorization
             c == req'.creds.cookie
         IN IF h.present /\ h.bearer
            THEN IF verifies(h.token)
                 THEN servedAs(req', resp', h.token.userId)
                 ELSE resp'.status = 401 /\ tasks' = tasks
            ELSE IF c.present /\ verifies(c.token)
                 THEN servedAs(req', resp', c.token.userId)
                 ELSE resp'.status = 401 /\ tasks' = tasks]_vars

(* A malformed Bearer token with a valid cookie beside it was answered 401 *)
C24_Witness ==
    /\ req.op \in TaskOps \cup {"me"}
    /\ req.creds.authorization.present
    /\ req.creds.authorization.bearer
    /\ ~verifies(req.creds.authorization.token)
    /\ req.creds.cookie.present
    /\ verifies(req.creds.cookie.token)
    /\ resp.status = 401

(* The request fails the validation of its endpoint *)
invalidRequest(r) ==
    CASE r.op = "register" -> r.step = "begin" /\ ~RegisterSchema(r.body).success
      [] r.op = "login" -> r.body.email = "" \/ r.body.password = ""
      [] r.op = "tasks.GET" -> callerOf(r) # 0 /\ ~TaskQuerySchema(r.query).success
      [] r.op = "tasks.POST" -> callerOf(r) # 0 /\ ~CreateTaskSchema(r.body, now).success
      [] r.op = "task.PATCH" -> callerOf(r) # 0 /\ ~UpdateTaskSchema(r.body, now).success
      [] OTHER -> FALSE

(* C25: a request rejected for failing validation is answered before the
   store is touched, connection establishment included: on register, login,
   GET and POST /tasks and PATCH /tasks/:id an invalid request gets its 400
   whether or not the store can be reached. *)
C25_ValidationBeforeStore ==
    invalidRequest(req) => resp.status = 400

(* The fields a PATCH can address *)
Mutable == {"title", "description", "status", "priority", "category", "dueDate"}

(* C28: PATCH /tasks/:id leaves every task field that is absent from the
   validated body unchanged and never changes the task's owner: whatever
   keys the body carries (userId and completedAt included), the task's
   userId after the update is its userId at creation. *)
C28_PatchFrame ==
    [][/\ (req'.op = "task.PATCH" /\ resp'.status = 200) =>
             \E old \in req'.before :
                LET new == resp'.body.data IN
                /\ tasks' = (tasks \ {old}) \cup {new}
                /\ \A k \in DOMAIN old \ (DOMAIN req'.body \cap Mutable) : new[k] = old[k]
                /\ \A k \in DOMAIN req'.body \cap Mutable : new[k] = req'.body[k]
       /\ \A x \in tasks' : \E c \in created' : c.id = x._id /\ c.by = x.userId]_vars

(* A PATCH naming another owner and a completedAt changed the status only *)
C28_Witness ==
    /\ req.op = "task.PATCH"
    /\ {"userId", "completedAt"} \subseteq DOMAIN req.body
    /\ resp.status = 200
    /\ resp.body.data \in tasks
    /\ resp.body.data.userId # req.body.userId
    /\ resp.body.data.completedAt # req.body.completedAt
    /\ resp.body.data.status = req.body.status
    /\ \E old \in req.before : old.status # req.body.status

(* C29: the request schema and the Task model agree on what is valid: every
   POST /tasks of an authenticated caller whose body passes CreateTaskSchema
   is stored and answered 200 (absent a store failure); no input the schema
   accepts is then rejected by the model's validators. *)
C29_SchemaAndModelAgree ==
    [][(/\ req'.op = "tasks.POST"
        /\ callerOf(req') # 0
        /\ req'.dbUp
        /\ CreateTaskSchema(req'.body, now).success)
       => /\ resp'.status = 200
          /\ resp'.body.data \in tasks']_vars

(* C27: across any interleaving of concurrent connectMongoDB calls at most
   one connection attempt is in flight at a time and, once a connection is
   established, every later call returns that connection without calling
   mongoose.connect again. *)
C27_OneSharedConnection ==
    [][/\ Cardinality(connecting') <= 1
       /\ connects' > connects => (cached.conn = 0 /\ connecting = {})
       /\ cached.conn # 0 =>
             /\ cached'.conn = cached.conn
             /\ connects' = connects
             /\ \A c \in Callers :
                   (callers[c].pc = "idle" /\ callers'[c].pc # "idle")
                      => callers'[c] = [pc |-> "returned", conn |-> cached.conn]]_vars

(* After a failed first attempt, two calls hold the connection that the
   second attempt opened *)
C27_Witness ==
    /\ connects = 2
    /\ cached.conn = 2
    /\ connecting = {}
    /\ \E c1, c2 \in Callers :
          /\ c1 # c2
          /\ callers[c1] = [pc |-> "returned", conn |-> 2]
          /\ callers[c2] = [pc |-> "returned", conn |-> 2]

(* login() has resolved with success and logout() was not called since *)
loggedIn == client.login.pc = "resolved" /\ client.login.success

(* C30: in the AuthProvider, once login() has resolved with success the user
   stays non-null (isAuthenticated true) until logout() is called, under
   every interleaving with a refreshUser() call that is still in flight,
   such as the session check started on mount. *)
C30_UserStaysAfterLogin ==
    [][(/\ loggedIn
        /\ loggedIn'
        /\ client.user # 0
        /\ client.refresh.pc = "sent"
        /\ ~client.refresh.sinceLogin)
       => client'.user # 0]_vars

====
